---- MODULE Spec2Model ----
(***************************************************************************)
(* A model of gobake (src/gobake.go): the identifier sanitizer             *)
(* getDeclName, the literal formatter formatValue, the declaration shapes  *)
(* and compressors, and the pipeline of main from parsed flags to the      *)
(* written output.                                                         *)
(*                                                                         *)
(* Text is a sequence of tokens.  A token is a single character (a quote,  *)
(* a parenthesis, a hex digit, a blank, ...) or an identifier/keyword kept *)
(* whole ("ioutil", "return", ...).  A Go string holding a name or a type  *)
(* is the sequence of its tokens ("" is <<>>).  A byte is its value 0..255. *)
(***************************************************************************)
EXTENDS Integers, Sequences, FiniteSets, TLC

VARIABLES pc, flags, narg, osArgs, declaration, compressor, imports, o,
          name, b, decl, sink, fatal, args, ret

vars == <<pc, flags, narg, osArgs, declaration, compressor, imports, o,
          name, b, decl, sink, fatal, args, ret>>

(***************************************************************************)
(* Bounds of the model.                                                    *)
(***************************************************************************)
\* longest raw name enumerated over RuneSet
MaxName == 4
\* longest payload enumerated over ByteSet
MaxLen == 4
\* largest small wrap width tried besides the program's own width
MaxWrap == 3
\* longest payload of the fixed byte pattern (reaches 2 * WrapWidth + 1)
MaxLong == 33

(***************************************************************************)
(* Characters.                                                             *)
(***************************************************************************)
QUOTE == "\""
BACKSLASH == "\\"
NL == "\n"
TAB == "\t"
SP == " "
LPAREN == "("
RPAREN == ")"
PLUS == "+"
DOT == "."
UNDERSCORE == "_"

Range(s) == {s[i] : i \in 1..Len(s)}

RECURSIVE SeqsUpTo(_, _)
SeqsUpTo(S, n) ==
    IF n = 0 THEN {<<>>}
    ELSE LET shorter == SeqsUpTo(S, n - 1)
         IN  shorter \cup {Append(s, x) : s \in {t \in shorter : Len(t) = n - 1}, x \in S}

(***************************************************************************)
(* Runes.  A rune is the string naming it: an ASCII character is itself,   *)
(* "U+00E9"/"U+00C9" are e-acute (a cased letter outside ASCII), "U+4E2D"  *)
(* is a CJK ideograph (a letter without case), "U+FFFD" is what ranging    *)
(* over a string yields for invalid UTF-8.  unicode.IsLetter, ToUpper and  *)
(* ToLower are tabulated on these.                                         *)
(***************************************************************************)
LowerRunes == <<"a", "b", "c", "d", "e", "f", "g", "h", "i", "j", "k", "l", "m",
                "n", "o", "p", "q", "r", "s", "t", "u", "v", "w", "x", "y", "z",
                "U+00E9">>
UpperRunes == <<"A", "B", "C", "D", "E", "F", "G", "H", "I", "J", "K", "L", "M",
                "N", "O", "P", "Q", "R", "S", "T", "U", "V", "W", "X", "Y", "Z",
                "U+00C9">>
UncasedLetters == {"U+4E2D"}

IndexOf(s, x) == CHOOSE i \in 1..Len(s) : s[i] = x
IsUpper(r) == r \in Range(UpperRunes)
IsLower(r) == r \in Range(LowerRunes)
IsLetter(r) == IsUpper(r) \/ IsLower(r) \/ r \in UncasedLetters
ToUpper(r) == IF IsLower(r) THEN UpperRunes[IndexOf(LowerRunes, r)] ELSE r
ToLower(r) == IF IsUpper(r) THEN LowerRunes[IndexOf(UpperRunes, r)] ELSE r

(***************************************************************************)
(* getDeclName (src/gobake.go:136-157).                                    *)
(***************************************************************************)
\* mutant: the export flag is read the wrong way round
FirstRuneSwapped(r, export) == IF export THEN ToLower(r) ELSE ToUpper(r)
\* lines 141-146: the first kept letter takes the case of the export flag
FirstRune(r, export) == IF export THEN ToUpper(r) ELSE ToLower(r)

\* mutant: a non-letter is appended only when the last kept rune is not '_'
NonLetterStepCollapsing(s) ==
    IF Len(s) > 0 /\ s[Len(s)] # UNDERSCORE THEN Append(s, UNDERSCORE) ELSE s
\* lines 150-153: a non-letter appends '_' once something has been kept
NonLetterStep(s) == IF Len(s) > 0 THEN Append(s, UNDERSCORE) ELSE s

\* lines 139-154: one iteration of the loop over the runes of the name
DeclNameStep(s, r, export) ==
    IF IsLetter(r)
    THEN IF Len(s) = 0 THEN Append(s, FirstRune(r, export)) ELSE Append(s, r)
    ELSE NonLetterStep(s)

RECURSIVE DeclNameLoop(_, _, _, _)
DeclNameLoop(s, nm, i, export) ==
    IF i > Len(nm) THEN s
    ELSE DeclNameLoop(DeclNameStep(s, nm[i], export), nm, i + 1, export)

getDeclName(nm, export) == DeclNameLoop(<<>>, nm, 1, export)

(***************************************************************************)
(* formatValue (src/gobake.go:91-133).                                     *)
(***************************************************************************)
hextable == <<"0", "1", "2", "3", "4", "5", "6", "7",
              "8", "9", "a", "b", "c", "d", "e", "f">>

RECURSIVE Tabs(_)
\* lines 114-116
Tabs(n) == IF n <= 0 THEN <<>> ELSE <<TAB>> \o Tabs(n - 1)

\* mutant: the nibbles are written low first
HexEscapeLowFirst(byte) ==
    <<BACKSLASH, "x", hextable[(byte % 16) + 1], hextable[(byte \div 16) + 1]>>
\* lines 119-121: \x, high nibble, low nibble
HexEscape(byte) ==
    <<BACKSLASH, "x", hextable[(byte \div 16) + 1], hextable[(byte % 16) + 1]>>

\* lines 93-95: the type "string" is no conversion
EffectiveType(typ) == IF typ = <<"string">> THEN <<>> ELSE typ

\* mutant: wrapping starts the first chunk in place, with no empty literal
OpenLiteralInPlace(wrap, n) == <<QUOTE>>
\* lines 107-111
OpenLiteral(wrap, n) ==
    IF wrap > 0 /\ n > wrap THEN <<QUOTE, QUOTE, SP, PLUS, NL>> ELSE <<QUOTE>>

\* lines 113-118: i counts from 0
ChunkOpen(wrap, indent, n, i) ==
    IF n > wrap /\ wrap > 0 /\ i % wrap = 0
    THEN Tabs(indent) \o <<QUOTE>>
    ELSE <<>>

\* mutant: the chunk is also continued after the last byte
ChunkCloseTrailing(wrap, typ, n, i) ==
    IF wrap > 0 /\ i % wrap = wrap - 1
    THEN <<QUOTE, SP, PLUS, NL>>
    ELSE IF i = n - 1
         THEN <<QUOTE>> \o (IF typ # <<>> THEN <<RPAREN>> ELSE <<>>) \o <<NL>>
         ELSE <<>>
\* lines 122-130
ChunkClose(wrap, typ, n, i) ==
    IF i = n - 1
    THEN <<QUOTE>> \o (IF typ # <<>> THEN <<RPAREN>> ELSE <<>>) \o <<NL>>
    ELSE IF wrap > 0 /\ i % wrap = wrap - 1
         THEN <<QUOTE, SP, PLUS, NL>>
         ELSE <<>>

RECURSIVE FormatLoop(_, _, _, _, _, _)
\* lines 112-131
FormatLoop(s, wrap, indent, typ, bytes, i) ==
    IF i >= Len(bytes) THEN s
    ELSE FormatLoop(s \o ChunkOpen(wrap, indent, Len(bytes), i)
                      \o HexEscape(bytes[i + 1])
                      \o ChunkClose(wrap, typ, Len(bytes), i),
                    wrap, indent, typ, bytes, i + 1)

formatValue(wrap, indent, typ0, bytes) ==
    LET typ == EffectiveType(typ0)
    IN  IF Len(bytes) = 0
        THEN IF typ = <<>> THEN <<QUOTE, QUOTE, NL>>
             ELSE typ \o <<LPAREN, QUOTE, QUOTE, RPAREN, NL>>
        ELSE FormatLoop((IF typ # <<>> THEN typ \o <<LPAREN>> ELSE <<>>)
                          \o OpenLiteral(wrap, Len(bytes)),
                        wrap, indent, typ, bytes, 0)

(***************************************************************************)
(* Compressor (src/gobake.go:17-57): "none" is noCompressor, "gzip" is     *)
(* gzipCompressor.                                                         *)
(***************************************************************************)
\* compress/gzip is a library: its stream is kept as the two magic bytes
\* and the method byte, a body and a length byte.  The generator only
\* depends on the result being a byte sequence of its own.
GzipStream(bytes) == <<31, 139, 8>> \o bytes \o <<Len(bytes) % 256>>

Encode(c, bytes) == IF c = "gzip" THEN GzipStream(bytes) ELSE bytes

\* mutant: the gzip decoder's imports are returned for every compressor
CompressorImportsAlwaysGzip(c) == <<"gzip", "strings">>
CompressorImports(c) ==
    IF c = "gzip" THEN <<"gzip", "strings">> ELSE <<"ioutil", "strings">>

FuncDecoder(c, v) ==
    IF c = "gzip"
    THEN <<"gr", ",", SP, "_", SP, ":", "=", SP, "gzip", DOT, "NewReader", LPAREN,
           "strings", DOT, "NewReader", LPAREN>> \o v \o <<RPAREN, RPAREN, NL, TAB,
           "return", SP, "gr">>
    ELSE <<"return", SP, "ioutil", DOT, "NopCloser", LPAREN,
           "strings", DOT, "NewReader", LPAREN>> \o v \o <<RPAREN, RPAREN>>

(***************************************************************************)
(* Declaration (src/gobake.go:59-87): "const", "var", "func".              *)
(***************************************************************************)
\* the wrap width every declaration passes to formatValue
WrapWidth == 16

\* mutant: the func declaration forgets its own import
DeclImportsNone(d) == <<>>
DeclImports(d) == IF d = "func" THEN <<"io">> ELSE <<>>

FormatDeclare(d, value, nm, typ, c) ==
    CASE d = "const" ->
           <<"const", SP>> \o nm \o <<SP, "=", SP>>
             \o formatValue(WrapWidth, 1, typ, Encode(c, value))
      [] d = "var" ->
           <<"var", SP>> \o nm \o <<SP, "=", SP>>
             \o formatValue(WrapWidth, 1, typ, Encode(c, value))
      [] d = "func" ->
           <<"func", SP>> \o nm \o <<LPAREN, RPAREN, SP, "io", DOT, "ReadCloser", SP,
             "{", NL, TAB, "const", SP, "a", SP, "=", SP>>
             \o formatValue(WrapWidth, 2, typ, Encode(c, value))
             \o <<TAB>> \o FuncDecoder(c, <<"a">>) \o <<NL, "}", NL>>

(***************************************************************************)
(* sort.Strings (src/gobake.go:219): byte-wise lexicographic order.  The   *)
(* bytes of the import names of the model are tabulated.                   *)
(***************************************************************************)
StrBytes(str) ==
    CASE str = "gzip" -> <<103, 122, 105, 112>>
      [] str = "html" -> <<104, 116, 109, 108>>
      [] str = "io" -> <<105, 111>>
      [] str = "ioutil" -> <<105, 111, 117, 116, 105, 108>>
      [] str = "strings" -> <<115, 116, 114, 105, 110, 103, 115>>
      [] str = "template" -> <<116, 101, 109, 112, 108, 97, 116, 101>>

RECURSIVE BytesLess(_, _)
BytesLess(x, y) ==
    IF Len(y) = 0 THEN FALSE
    ELSE IF Len(x) = 0 THEN TRUE
    ELSE IF Head(x) # Head(y) THEN Head(x) < Head(y)
    ELSE BytesLess(Tail(x), Tail(y))

StrLess(x, y) == BytesLess(StrBytes(x), StrBytes(y))

RECURSIVE InsertSorted(_, _)
InsertSorted(s, x) ==
    IF Len(s) = 0 THEN <<x>>
    ELSE IF StrLess(x, Head(s)) THEN <<x>> \o s
    ELSE <<Head(s)>> \o InsertSorted(Tail(s), x)

RECURSIVE SortStrings(_)
SortStrings(s) ==
    IF Len(s) = 0 THEN <<>> ELSE InsertSorted(SortStrings(Tail(s)), Head(s))

(***************************************************************************)
(* filepath.Base and filepath.Ext (src/gobake.go:265-266) on a path of     *)
(* runes without a trailing separator.                                     *)
(***************************************************************************)
RECURSIVE Base(_)
Base(path) ==
    IF \E i \in 1..Len(path) : path[i] = "/"
    THEN Base(Tail(path))
    ELSE IF Len(path) = 0 THEN <<".">> ELSE path

LastDot(path) ==
    IF \E i \in 1..Len(path) : path[i] = DOT
    THEN CHOOSE i \in 1..Len(path) :
           path[i] = DOT /\ \A j \in (i + 1)..Len(path) : path[j] # DOT
    ELSE 0

Ext(path) ==
    LET base == Base(path)
    IN  IF LastDot(base) = 0 THEN <<>> ELSE SubSeq(base, LastDot(base), Len(base))

\* lines 265-266: the base name of the file without its extension
DefaultName(path) == SubSeq(Base(path), 1, Len(Base(path)) - Len(Ext(Base(path))))

(***************************************************************************)
(* The inputs of a run.                                                    *)
(***************************************************************************)
\* the byte at index i of the fixed pattern
PatternByte(i) == (i * 37 + 11) % 256
Pattern(n) == [i \in 1..n |-> PatternByte(i)]

DeclFlags == {"func", "var", "const", "enum"}
CompressFlags == {"", "gzip"}
ImportFlags == {"", "gzip", "io", "html", "template"}
TypeFlags == {<<"string">>, <<>>, <<"template", DOT, "HTML">>}
NameFlags == {<<>>, <<"1", "m", "y", "-", "N">>}
OutputFlags == {"", "out.go"}
PackageFlags == {"", "assets"}
FileArgs == {<<".", "c", "o", "n", "f", "i", "g", "/", "c", "f", "g", DOT, "X", "M", "L">>,
             <<"R", "E", "A", "D", "M", "E">>}
\* what reading the input can yield: nothing, "hi", one byte more than a line
Payloads == {<<>>, <<104, 105>>, Pattern(WrapWidth + 1)}

\* os.Args[1:] of an invocation with these flags: every flag that is not at
\* its default, then the file
OsArgs(f, files) ==
    (IF f.Decl # "func" THEN <<<<"-decl", SP, f.Decl>>>> ELSE <<>>)
    \o (IF f.Compress # "" THEN <<<<"-compress", SP, f.Compress>>>> ELSE <<>>)
    \o (IF f.Export THEN <<<<"-export">>>> ELSE <<>>)
    \o (IF f.Import # "" THEN <<<<"-import", SP, f.Import>>>> ELSE <<>>)
    \o (IF f.Name # <<>> THEN <<<<"-name", SP>> \o f.Name>> ELSE <<>>)
    \o (IF f.Output # "" THEN <<<<"-output", SP, f.Output>>>> ELSE <<>>)
    \o (IF f.Package # "" THEN <<<<"-package", SP, f.Package>>>> ELSE <<>>)
    \o (IF f.Type # <<"string">> THEN <<<<"-type", SP>> \o f.Type>> ELSE <<>>)
    \o files

RECURSIVE Flatten(_)
\* lines 236-239: a blank, then the argument
Flatten(as) == IF Len(as) = 0 THEN <<>> ELSE <<SP>> \o Head(as) \o Flatten(Tail(as))

RECURSIVE ImportLines(_)
\* lines 245-247: one quoted import per line
ImportLines(imps) ==
    IF Len(imps) = 0 THEN <<>>
    ELSE <<TAB, QUOTE, Head(imps), QUOTE, NL>> \o ImportLines(Tail(imps))

\* lines 243-249
ImportBlock(imps) ==
    IF Len(imps) > 0
    THEN <<"import", SP, LPAREN, NL>> \o ImportLines(imps) \o <<RPAREN, NL, NL>>
    ELSE <<>>

\* lines 235-242
Header(as, pkg) ==
    <<"//", SP, "File", SP, "generated", SP, "by", SP, QUOTE, "gobake">>
      \o Flatten(as)
      \o <<QUOTE, NL, "//", SP, "DO", SP, "NOT", SP, "EDIT!", NL, NL, "package", SP>>
      \o <<pkg>> \o <<NL, NL>>

\* how many tokens a Write that is given n tokens may have written when it
\* returns: none, some, all (fewer than all comes with an error)
WriteCounts(n) == {0, n \div 2, n}

(***************************************************************************)
(* main (src/gobake.go:159-281), from the parsed flags on.                 *)
(***************************************************************************)
NoCall == [fn |-> "none"]

InitMain ==
    /\ pc = "declaration"
    /\ flags \in [Decl : DeclFlags, Compress : CompressFlags, Export : BOOLEAN,
                  Import : ImportFlags, Name : NameFlags, Output : OutputFlags,
                  Package : PackageFlags, Type : TypeFlags]
    /\ narg \in {<<>>} \cup {<<f>> : f \in FileArgs}
    /\ osArgs = OsArgs(flags, narg)
    /\ declaration = "unset"
    /\ compressor = "unset"
    /\ imports = <<>>
    /\ o = <<>>
    /\ name = <<>>
    /\ b = <<>>
    /\ decl = <<>>
    /\ sink = <<>>
    /\ fatal = ""
    /\ args = NoCall
    /\ ret = <<>>

\* mutant: the configured type is kept for every declaration
ForcedTypeKept(d, typ) == typ
\* lines 195, 200: const and func declarations drop the configured type
ForcedType(d, typ) == IF d = "var" THEN typ ELSE <<>>

\* lines 190-203
SelectDeclaration ==
    /\ pc = "declaration"
    /\ LET d == CASE flags.Decl = "var" -> "var"
                  [] flags.Decl = "const" -> "const"
                  [] OTHER -> "func"
       IN  /\ declaration' = d
           /\ flags' = [flags EXCEPT !.Type = ForcedType(d, flags.Type)]
           /\ imports' = imports \o DeclImports(d)
    /\ pc' = "compressor"
    /\ UNCHANGED <<narg, osArgs, compressor, o, name, b, decl, sink, fatal, args, ret>>

\* lines 205-214
SelectCompressor ==
    /\ pc = "compressor"
    /\ LET c == IF flags.Compress = "gzip" THEN "gzip" ELSE "none"
       IN  /\ compressor' = c
           /\ imports' = IF declaration = "func"
                         THEN imports \o CompressorImports(c)
                         ELSE imports
    /\ pc' = "import"
    /\ UNCHANGED <<flags, narg, osArgs, declaration, o, name, b, decl, sink, fatal,
                   args, ret>>

\* lines 216-219
AddImport ==
    /\ pc = "import"
    /\ imports' = SortStrings(IF flags.Import # ""
                              THEN Append(imports, flags.Import)
                              ELSE imports)
    /\ pc' = "package"
    /\ UNCHANGED <<flags, narg, osArgs, declaration, compressor, o, name, b, decl,
                   sink, fatal, args, ret>>

\* lines 221-232: build.ImportDir finds a package name in the output
\* directory ("found") or does not
ResolvePackage ==
    /\ pc = "package"
    /\ \/ /\ flags.Package = ""
          /\ flags.Output = ""
          /\ flags' = [flags EXCEPT !.Package = "main"]
       \/ /\ flags.Package = ""
          /\ flags.Output # ""
          /\ \E found \in {"main", "found"} : flags' = [flags EXCEPT !.Package = found]
       \/ /\ flags.Package # ""
          /\ flags' = flags
    /\ pc' = "header"
    /\ UNCHANGED <<narg, osArgs, declaration, compressor, imports, o, name, b, decl,
                   sink, fatal, args, ret>>

\* lines 234-249
WriteHeader ==
    /\ pc = "header"
    /\ o' = o \o Header(osArgs, flags.Package) \o ImportBlock(imports)
    /\ pc' = "read"
    /\ UNCHANGED <<flags, narg, osArgs, declaration, compressor, imports, name, b,
                   decl, sink, fatal, args, ret>>

\* lines 253-259
ReadStdin ==
    /\ pc = "read"
    /\ Len(narg) = 0
    /\ \E data \in Payloads : b' = data
    /\ name' = IF flags.Name = <<>> THEN <<"s", "t", "d", "i", "n">> ELSE flags.Name
    /\ pc' = "render"
    /\ UNCHANGED <<flags, narg, osArgs, declaration, compressor, imports, o, decl,
                   sink, fatal, args, ret>>

\* lines 260-268
ReadFile ==
    /\ pc = "read"
    /\ Len(narg) > 0
    /\ \E data \in Payloads : b' = data
    /\ name' = IF flags.Name = <<>> THEN DefaultName(narg[1]) ELSE flags.Name
    /\ pc' = "render"
    /\ UNCHANGED <<flags, narg, osArgs, declaration, compressor, imports, o, decl,
                   sink, fatal, args, ret>>

\* lines 256, 263: the read returns an error
ReadFails ==
    /\ pc = "read"
    /\ fatal' = IF Len(narg) = 0 THEN "read stdin" ELSE "read file"
    /\ pc' = "aborted"
    /\ UNCHANGED <<flags, narg, osArgs, declaration, compressor, imports, o, name, b,
                   decl, sink, args, ret>>

\* lines 270-271
Render ==
    /\ pc = "render"
    /\ name' = getDeclName(name, flags.Export)
    /\ decl' = FormatDeclare(declaration, b, name', flags.Type, compressor)
    /\ o' = o \o decl'
    /\ pc' = "write"
    /\ UNCHANGED <<flags, narg, osArgs, declaration, compressor, imports, b, sink,
                   fatal, args, ret>>

\* lines 45-47: the gzip writer returns an error
CompressFails ==
    /\ pc = "render"
    /\ compressor = "gzip"
    /\ \E stage \in {"write gzip", "close gzip"} : fatal' = stage
    /\ name' = getDeclName(name, flags.Export)
    /\ pc' = "aborted"
    /\ UNCHANGED <<flags, narg, osArgs, declaration, compressor, imports, o, b, decl,
                   sink, args, ret>>

\* lines 272-277: os.Stdout.Write
WriteStdout ==
    /\ pc = "write"
    /\ flags.Output = ""
    /\ flags' = IF flags.Package = "" THEN [flags EXCEPT !.Package = "main"] ELSE flags
    /\ \E n \in WriteCounts(Len(o)) :
          /\ sink' = sink \o SubSeq(o, 1, n)
          /\ pc' = IF n = Len(o) THEN "done" ELSE "aborted"
          /\ fatal' = IF n = Len(o) THEN fatal ELSE "write stdout"
    /\ UNCHANGED <<narg, osArgs, declaration, compressor, imports, o, name, b,
                   decl, args, ret>>

\* line 279: ioutil.WriteFile opens the file truncated and writes it
WriteFile ==
    /\ pc = "write"
    /\ flags.Output # ""
    /\ \E n \in WriteCounts(Len(o)) :
          /\ sink' = SubSeq(o, 1, n)
          /\ pc' = IF n = Len(o) THEN "done" ELSE "aborted"
          /\ fatal' = IF n = Len(o) THEN fatal ELSE "write file"
    /\ UNCHANGED <<flags, narg, osArgs, declaration, compressor, imports, o, name, b,
                   decl, args, ret>>

Next ==
    \/ SelectDeclaration
    \/ SelectCompressor
    \/ AddImport
    \/ ResolvePackage
    \/ WriteHeader
    \/ ReadStdin
    \/ ReadFile
    \/ ReadFails
    \/ Render
    \/ CompressFails
    \/ WriteStdout
    \/ WriteFile

Spec == InitMain /\ [][Next]_vars

(***************************************************************************)
(* getDeclName on its own: every raw name over RuneSet up to MaxName       *)
(* runes, and the names of the documentation.                              *)
(***************************************************************************)
RuneSet == {"a", "B", "U+4E2D", "1", ".", "_", "U+FFFD"}

DocNames == {<<".", "c", "o", "n", "f", "i", "g", "/", "c", "f", "g", ".", "X", "M", "L">>,
             <<"1", "2", "3">>}

MainUnused ==
    /\ flags = [Decl |-> "func", Compress |-> "", Export |-> FALSE, Import |-> "",
                Name |-> <<>>, Output |-> "", Package |-> "", Type |-> <<"string">>]
    /\ narg = <<>>
    /\ osArgs = <<>>
    /\ declaration = "unset"
    /\ compressor = "unset"
    /\ imports = <<>>
    /\ o = <<>>
    /\ name = <<>>
    /\ b = <<>>
    /\ decl = <<>>
    /\ sink = <<>>
    /\ fatal = ""

InitName ==
    /\ pc = "call"
    /\ args \in [fn : {"getDeclName"}, name : SeqsUpTo(RuneSet, MaxName) \cup DocNames,
                 export : BOOLEAN]
    /\ ret = <<>>
    /\ MainUnused

CallGetDeclName ==
    /\ pc = "call"
    /\ args.fn = "getDeclName"
    /\ ret' = getDeclName(args.name, args.export)
    /\ pc' = "returned"
    /\ UNCHANGED <<flags, narg, osArgs, declaration, compressor, imports, o, name, b,
                   decl, sink, fatal, args>>

NextName == CallGetDeclName

SpecName == InitName /\ [][NextName]_vars

(***************************************************************************)
(* formatValue on its own: every payload over ByteSet up to MaxLen bytes   *)
(* and the pattern payloads up to MaxLong bytes, under the wrap widths     *)
(* -1..MaxWrap and WrapWidth.                                              *)
(***************************************************************************)
ByteSet == {0, 10, 175, 255}
WrapSet == (-1..MaxWrap) \cup {WrapWidth}
IndentSet == {1, 2}
TypeSet == {<<>>, <<"string">>, <<"T">>}
FormatPayloads == SeqsUpTo(ByteSet, MaxLen) \cup {Pattern(n) : n \in 1..MaxLong}

InitFormat ==
    /\ pc = "call"
    /\ args \in [fn : {"formatValue"}, wrap : WrapSet, indent : IndentSet,
                 typ : TypeSet, b : FormatPayloads]
    /\ ret = <<>>
    /\ MainUnused

CallFormatValue ==
    /\ pc = "call"
    /\ args.fn = "formatValue"
    /\ ret' = formatValue(args.wrap, args.indent, args.typ, args.b)
    /\ pc' = "returned"
    /\ UNCHANGED <<flags, narg, osArgs, declaration, compressor, imports, o, name, b,
                   decl, sink, fatal, args>>

NextFormat == CallFormatValue

SpecFormat == InitFormat /\ [][NextFormat]_vars

(***************************************************************************)
(* Reading a text back: its string literals, its package qualifiers, its   *)
(* import lines.                                                           *)
(***************************************************************************)
Indices(text) == [i \in 1..Len(text) |-> i]

\* the positions of the double quotes of a text, in order
QuotePos(text) == LET IsQuote(i) == text[i] = QUOTE IN SelectSeq(Indices(text), IsQuote)

\* position i lies strictly inside a string literal
InLiteral(text, i) ==
    /\ text[i] # QUOTE
    /\ Cardinality({j \in 1..(i - 1) : text[j] = QUOTE}) % 2 = 1

NumLiterals(text) == Len(QuotePos(text)) \div 2
LiteralOpen(text, k) == QuotePos(text)[2 * k - 1]
LiteralClose(text, k) == QuotePos(text)[2 * k]
\* the number of tokens between the quotes of the k-th literal
LiteralLen(text, k) == LiteralClose(text, k) - LiteralOpen(text, k) - 1

\* the contents of all literals, in order
LiteralContents(text) ==
    LET Inside(i) == InLiteral(text, i)
        at == SelectSeq(Indices(text), Inside)
    IN  [k \in 1..Len(at) |-> text[at[k]]]

\* the k-th literal begins a line of its own, behind exactly `indent` tabs
Indented(text, k, indent) ==
    LET open == LiteralOpen(text, k)
    IN  /\ open - indent - 1 >= 1
        /\ text[open - indent - 1] = NL
        /\ \A j \in (open - indent)..(open - 1) : text[j] = TAB

\* the k-th literal follows the start of the text or the opening parenthesis
\* of the conversion directly
NotIndented(text, k) ==
    LET open == LiteralOpen(text, k)
    IN  open = 1 \/ text[open - 1] = LPAREN

HexValue(c) ==
    CASE c = "0" -> 0 [] c = "1" -> 1 [] c = "2" -> 2 [] c = "3" -> 3
      [] c = "4" -> 4 [] c = "5" -> 5 [] c = "6" -> 6 [] c = "7" -> 7
      [] c = "8" -> 8 [] c = "9" -> 9 [] c = "a" -> 10 [] c = "b" -> 11
      [] c = "c" -> 12 [] c = "d" -> 13 [] c = "e" -> 14 [] c = "f" -> 15
      [] OTHER -> -1

RECURSIVE DecodeEscapes(_)
\* the bytes a sequence of \xHH escapes stands for; <<-1>> when it is not one
DecodeEscapes(cs) ==
    IF Len(cs) = 0 THEN <<>>
    ELSE IF /\ Len(cs) >= 4
            /\ cs[1] = BACKSLASH
            /\ cs[2] = "x"
            /\ HexValue(cs[3]) >= 0
            /\ HexValue(cs[4]) >= 0
         THEN LET rest == DecodeEscapes(SubSeq(cs, 5, Len(cs)))
              IN  IF rest = <<-1>> THEN rest
                  ELSE <<HexValue(cs[3]) * 16 + HexValue(cs[4])>> \o rest
         ELSE <<-1>>

BlankTokens == {SP, NL, TAB}

\* the package qualifiers of a text: the tokens followed by a dot, outside
\* string literals
Referenced(text) ==
    {text[i] : i \in {j \in 1..(Len(text) - 1) :
                        /\ text[j + 1] = DOT
                        /\ text[j] # DOT
                        /\ ~InLiteral(text, j)}}

\* the names of the import lines of a text, in order: tab, quote, name,
\* quote, line end
RenderedImports(text) ==
    LET IsImport(i) == /\ i >= 3
                       /\ i + 2 <= Len(text)
                       /\ text[i - 2] = TAB
                       /\ text[i - 1] = QUOTE
                       /\ text[i + 1] = QUOTE
                       /\ text[i + 2] = NL
        at == SelectSeq(Indices(text), IsImport)
    IN  [k \in 1..Len(at) |-> text[at[k]]]

Ceil(n, w) == (n + w - 1) \div w

(***************************************************************************)
(* Claims about getDeclName, under SpecName.                               *)
(***************************************************************************)
\* the number of non-letters in front of the first letter of a name (all
\* of the name when it has no letter)
Lead(nm) ==
    IF \E i \in 1..Len(nm) : IsLetter(nm[i])
    THEN (CHOOSE i \in 1..Len(nm) :
            IsLetter(nm[i]) /\ \A j \in 1..(i - 1) : ~IsLetter(nm[j])) - 1
    ELSE Len(nm)

\* a non-letter run starts at position i of the name, after the first letter
RunStart(nm, i) == i > Lead(nm) + 1 /\ ~IsLetter(nm[i]) /\ IsLetter(nm[i - 1])

Underscores(s) == Cardinality({i \in 1..Len(s) : s[i] = UNDERSCORE})

\* C1 as stated: every run of non-letters after the first kept letter gives
\* one underscore, so the result holds as many underscores as the name has
\* such runs and never two in a row, and it never starts with an underscore.
C1_RunsCollapsed ==
    pc = "returned" =>
      /\ Underscores(ret) = Cardinality({i \in 1..Len(args.name) : RunStart(args.name, i)})
      /\ \A i \in 1..(Len(ret) - 1) : ~(ret[i] = UNDERSCORE /\ ret[i + 1] = UNDERSCORE)
      /\ (Len(ret) > 0 => ret[1] # UNDERSCORE)

\* C1 amended: every non-letter after the first kept letter gives one
\* underscore of its own (a run of k non-letters gives k underscores), every
\* letter stays a letter in its place, and the non-letters in front of the
\* first letter are dropped, so the result never starts with an underscore.
C1_EachNonLetterUnderscore ==
    pc = "returned" =>
      LET k == Lead(args.name)
      IN  /\ Len(ret) = Len(args.name) - k
          /\ \A i \in 1..Len(ret) :
                IF IsLetter(args.name[i + k]) THEN IsLetter(ret[i]) ELSE ret[i] = UNDERSCORE
          /\ (Len(ret) > 0 => ret[1] # UNDERSCORE)

\* a name with non-letters in front and a run of two behind a letter
C1_Witness ==
    /\ pc = "returned"
    /\ args.name = <<".", "a", ".", "1">>
    /\ ret = <<"a", "_", "_">>

Letters(s) == SelectSeq(s, IsLetter)

\* C2: the letters of the result are the letters of the name in order, the
\* first in upper case when exporting and in lower case otherwise, the
\* others as they are; a name without letters gives the empty identifier;
\* ".config/cfg.XML" gives config_cfg_XML, exported Config_cfg_XML.
C2_LettersKept ==
    pc = "returned" =>
      LET in == Letters(args.name)
      IN  /\ Letters(ret) =
               IF Len(in) = 0 THEN <<>>
               ELSE <<IF args.export THEN ToUpper(in[1]) ELSE ToLower(in[1])>> \o Tail(in)
          /\ (Len(in) = 0 => ret = <<>>)
          /\ (args.name \in {<<>>, <<"1", "2", "3">>} => ret = <<>>)
          /\ (args.name = <<".", "c", "o", "n", "f", "i", "g", "/", "c", "f", "g", ".",
                            "X", "M", "L">> =>
                ret = <<IF args.export THEN "C" ELSE "c">>
                        \o <<"o", "n", "f", "i", "g", "_", "c", "f", "g", "_", "X", "M", "L">>)

\* the documented name, exported
C2_Witness ==
    /\ pc = "returned"
    /\ args.export
    /\ args.name = <<".", "c", "o", "n", "f", "i", "g", "/", "c", "f", "g", ".", "X", "M", "L">>
    /\ ret = <<"C", "o", "n", "f", "i", "g", "_", "c", "f", "g", "_", "X", "M", "L">>

(***************************************************************************)
(* Claims about formatValue, under SpecFormat.                             *)
(***************************************************************************)
Wrapping == args.wrap > 0 /\ Len(args.b) > args.wrap

\* the bytes the k-th of the chunks of a wrapped payload holds
ChunkBytes(k) ==
    IF k < Ceil(Len(args.b), args.wrap)
    THEN args.wrap
    ELSE Len(args.b) - args.wrap * (Ceil(Len(args.b), args.wrap) - 1)

\* C6 as stated: a wrapped payload gives exactly ceil(len/wrap) literals of
\* wrap bytes (the last the remainder), each after the first on a new line
\* behind indent tabs, the first not indented.
C6_ExactlyCeilLiterals ==
    (pc = "returned" /\ Wrapping) =>
      /\ Len(QuotePos(ret)) % 2 = 0
      /\ NumLiterals(ret) = Ceil(Len(args.b), args.wrap)
      /\ \A k \in 1..NumLiterals(ret) :
            /\ LiteralLen(ret, k) = 4 * ChunkBytes(k)
            /\ IF k = 1 THEN NotIndented(ret, k) ELSE Indented(ret, k, args.indent)

\* C6 amended: a wrapped payload gives an empty literal first, not indented
\* and followed by " +", and then exactly ceil(len/wrap) literals of wrap
\* bytes (the last the remainder), every one of them, the first included,
\* on a new line behind indent tabs.
C6_EmptyLiteralThenChunks ==
    (pc = "returned" /\ Wrapping) =>
      /\ Len(QuotePos(ret)) % 2 = 0
      /\ NumLiterals(ret) = Ceil(Len(args.b), args.wrap) + 1
      /\ LiteralLen(ret, 1) = 0
      /\ NotIndented(ret, 1)
      /\ SubSeq(ret, LiteralClose(ret, 1) + 1, LiteralClose(ret, 1) + 3) = <<SP, PLUS, NL>>
      /\ \A k \in 1..Ceil(Len(args.b), args.wrap) :
            /\ LiteralLen(ret, k + 1) = 4 * ChunkBytes(k)
            /\ Indented(ret, k + 1, args.indent)

\* 33 bytes at the program's width: the empty literal and chunks of 16, 16, 1
C6_Witness ==
    /\ pc = "returned"
    /\ args.wrap = WrapWidth
    /\ Len(args.b) = 2 * WrapWidth + 1
    /\ NumLiterals(ret) = 4
    /\ LiteralLen(ret, 4) = 4

TypeGiven == args.typ # <<>> /\ args.typ # <<"string">>

OutsidePos(text, p) == {i \in 1..Len(text) : text[i] = p /\ ~InLiteral(text, i)}

\* C7: the output is balanced: the quotes pair up, the conversion's
\* parenthesis is opened once, right behind the type, and closed once, behind
\* the last literal, when a type is given and never otherwise, and every
\* "+" stands between the end of one literal and the start of the next.
C7_Balanced ==
    pc = "returned" =>
      /\ Len(QuotePos(ret)) % 2 = 0
      /\ NumLiterals(ret) >= 1
      /\ IF TypeGiven
         THEN /\ OutsidePos(ret, LPAREN) = {Len(args.typ) + 1}
              /\ SubSeq(ret, 1, Len(args.typ)) = args.typ
              /\ OutsidePos(ret, RPAREN) = {LiteralClose(ret, NumLiterals(ret)) + 1}
         ELSE OutsidePos(ret, LPAREN) = {} /\ OutsidePos(ret, RPAREN) = {}
      /\ \A i \in OutsidePos(ret, PLUS) :
            \E k \in 1..(NumLiterals(ret) - 1) :
               /\ LiteralClose(ret, k) < i
               /\ i < LiteralOpen(ret, k + 1)
               /\ \A j \in (LiteralClose(ret, k) + 1)..(LiteralOpen(ret, k + 1) - 1) :
                     j # i => ret[j] \in BlankTokens
      /\ \A j \in (LiteralClose(ret, NumLiterals(ret)) + 1)..Len(ret) :
            ret[j] \in {RPAREN, NL}
      /\ ret[Len(ret)] = NL

\* a typed payload of exactly two lines
C7_Witness ==
    /\ pc = "returned"
    /\ args.typ = <<"T">>
    /\ args.wrap = 2
    /\ Len(args.b) = 4
    /\ Cardinality(OutsidePos(ret, PLUS)) = 2
    /\ ret[Len(ret) - 1] = RPAREN

\* C8: the literals of the output, read in order and decoded escape by
\* escape, give back the payload byte for byte.
C8_RoundTrip ==
    pc = "returned" => DecodeEscapes(LiteralContents(ret)) = args.b

\* a payload with a NUL byte, split over two lines
C8_Witness ==
    /\ pc = "returned"
    /\ args.wrap = 2
    /\ args.b = <<0, 175, 255>>
    /\ NumLiterals(ret) = 3
    /\ DecodeEscapes(LiteralContents(ret)) = <<0, 175, 255>>

(***************************************************************************)
(* Claims about main, under Spec.                                          *)
(***************************************************************************)
Rendered == pc \in {"write", "done"} \/ (pc = "aborted" /\ decl # <<>>)
Collected == pc \notin {"declaration", "compressor", "import"}
ExtraImport == IF flags.Import # "" THEN {flags.Import} ELSE {}

\* C3 as stated: the import list is exactly the set of packages the
\* rendered declaration refers to.
C3_ExactlyReferenced ==
    Rendered => Range(imports) = Referenced(decl)

\* C3 amended: every import listed is referred to by the rendered
\* declaration or is the configured extra import; every package the
\* declaration refers to is listed or is the qualifier of the type of a var
\* declaration; without an extra import and with an unqualified type the
\* list is exactly the set referred to.
C3_ReferencedUpToExtra ==
    Rendered =>
      /\ Range(imports) \subseteq Referenced(decl) \cup ExtraImport
      /\ Referenced(decl) \subseteq Range(imports) \cup Referenced(flags.Type)
      /\ (flags.Import = "" /\ Referenced(flags.Type) = {} =>
            Range(imports) = Referenced(decl))

\* the accessor over gzip, no extra import
C3_Witness ==
    /\ pc = "write"
    /\ declaration = "func"
    /\ compressor = "gzip"
    /\ flags.Import = ""
    /\ Referenced(decl) = {"gzip", "io", "strings"}
    /\ imports = <<"gzip", "io", "strings">>

\* C4: the imports collected are those of the shape ("io" for func, none
\* for const and var), those of the compressor when the shape is func, and
\* the extra import when there is one; const and var over gzip get no
\* import of a compressor (nothing but the extra import, if any).
C4_ImportComposition ==
    Collected =>
      /\ Range(imports) =
           (IF declaration = "func" THEN {"io"} ELSE {})
           \cup (IF declaration = "func"
                 THEN (IF compressor = "gzip" THEN {"gzip", "strings"}
                                              ELSE {"ioutil", "strings"})
                 ELSE {})
           \cup ExtraImport
      /\ (declaration \in {"const", "var"} /\ compressor = "gzip" =>
            /\ Range(imports) \cap {"gzip", "strings", "ioutil"} \subseteq ExtraImport
            /\ Range(imports) = ExtraImport)
      /\ (declaration = "func" /\ compressor = "gzip" /\ flags.Import = "" =>
            Range(imports) = {"io"} \cup {"gzip", "strings"})

\* a var over gzip with an extra import: only the extra import
C4_Witness ==
    /\ pc = "header"
    /\ declaration = "var"
    /\ compressor = "gzip"
    /\ flags.Import = "template"
    /\ imports = <<"template">>

\* C5 as stated: the import lines rendered are distinct names in
\* lexicographic order: each line is strictly below the next.
C5_StrictlyIncreasing ==
    pc = "read" =>
      LET lines == RenderedImports(o)
      IN  /\ Len(lines) = Len(imports)
          /\ \A i \in 1..(Len(lines) - 1) : StrLess(lines[i], lines[i + 1])

\* C9 as stated: a run that aborts leaves the output with none of the text
\* or with all of it, and nothing is written before the input is read and
\* compressed.
C9_AllOrNothing ==
    /\ (pc = "aborted" => sink = <<>> \/ sink = o)
    /\ (pc \in {"declaration", "compressor", "import", "package", "header", "read",
                "render", "write"} => sink = <<>>)

\* the literal of the declaration is the argument of a conversion: a
\* parenthesis directly in front of a literal, outside literals
Converted(text) ==
    \E i \in 1..(Len(text) - 1) :
       text[i] = LPAREN /\ text[i + 1] = QUOTE /\ ~InLiteral(text, i)

\* the conversion of the declaration names exactly this type and is closed
\* behind the last literal
ConvertedTo(text, typ) ==
    \E i \in (Len(typ) + 1)..(Len(text) - 1) :
       /\ text[i] = LPAREN /\ text[i + 1] = QUOTE /\ ~InLiteral(text, i)
       /\ SubSeq(text, i - Len(typ), i - 1) = typ
       /\ text[i - Len(typ) - 1] = SP
       /\ text[LiteralClose(text, NumLiterals(text)) + 1] = RPAREN

\* the -type argument of the invocation, <<"string">> when it has none
ConfiguredType ==
    IF \E i \in 1..Len(osArgs) : osArgs[i][1] = "-type"
    THEN LET a == osArgs[CHOOSE i \in 1..Len(osArgs) : osArgs[i][1] = "-type"]
         IN  SubSeq(a, 3, Len(a))
    ELSE <<"string">>

\* C10: a const or func declaration (func also for an unknown -decl) never
\* converts its literal, whatever -type says; a var declaration converts it
\* to the configured type exactly when that type is neither empty nor
\* "string", for every payload.
C10_TypeAnnotation ==
    Rendered =>
      /\ (flags.Decl \notin {"var", "const"} => declaration = "func")
      /\ (flags.Decl \in {"var", "const"} => declaration = flags.Decl)
      /\ (declaration \in {"const", "func"} => ~Converted(decl))
      /\ (declaration = "var" =>
            IF ConfiguredType \in {<<>>, <<"string">>}
            THEN ~Converted(decl)
            ELSE ConvertedTo(decl, ConfiguredType))

\* an unknown -decl with a qualified -type and an empty payload
C10_Witness ==
    /\ pc = "write"
    /\ flags.Decl = "enum"
    /\ declaration = "func"
    /\ ConfiguredType = <<"template", DOT, "HTML">>
    /\ b = <<>>
    /\ ~Converted(decl)

====
